---- MODULE Spec2Model ----
(***************************************************************************)
(* A model of the ip_tracking application: the request gate and ingestor   *)
(* of IPTrackingMiddleware, its two-tier geolocation cache, and the        *)
(* writers of the BlockedIP table.                                         *)
(*                                                                         *)
(* Time is discrete; one clock unit is TickSeconds.  A request is handled  *)
(* well within one clock unit, so the clock advances only between          *)
(* requests.  Text (addresses) is a sequence of one-character strings, so  *)
(* that str.startswith is computed character by character.                 *)
(***************************************************************************)
EXTENDS Integers, Sequences, FiniteSets, TLC

(* ------------------------------------------------------------------ *)
(* Bounds of the model                                                 *)
(* ------------------------------------------------------------------ *)
MaxTime == 3
MaxRequests == 2
MaxBatches == 2
MaxRuns == 2

Workers == {"w1", "w2"}

(* ------------------------------------------------------------------ *)
(* Time                                                                *)
(* ------------------------------------------------------------------ *)
TickSeconds == 60 * 60 * 12

\* cache.set(..., timeout=60*60*24), in clock units
CacheTimeout == (60 * 60 * 24) \div TickSeconds

\* timedelta(hours=24), in clock units
ExpiryDelta == (24 * 60 * 60) \div TickSeconds

(* ------------------------------------------------------------------ *)
(* Text                                                                *)
(* ------------------------------------------------------------------ *)
\* Python's None, for a field that holds a str
None == "None"

\* Python's None, where the value would be a text (a sequence of characters)
NoneIp == <<"None">>

DigitChars == <<"0", "1", "2", "3", "4", "5", "6", "7", "8", "9">>

RECURSIVE Dec(_)
Dec(n) == IF n < 10 THEN <<DigitChars[n + 1]>>
          ELSE Dec(n \div 10) \o <<DigitChars[(n % 10) + 1]>>

DottedQuad(o) == Dec(o[1]) \o <<".">> \o Dec(o[2]) \o <<".">> \o Dec(o[3]) \o <<".">> \o Dec(o[4])

StartsWith(s, p) == Len(s) >= Len(p) /\ SubSeq(s, 1, Len(p)) = p

(* ------------------------------------------------------------------ *)
(* Clients: the hosts requests come from.  RemoteAddr is the text the   *)
(* server puts in request.META['REMOTE_ADDR'], None when it sets none.  *)
(* ------------------------------------------------------------------ *)
PublicHost   == [kind |-> "v4", octets |-> <<203, 0, 113, 7>>]
PrivateHost  == [kind |-> "v4", octets |-> <<10, 0, 0, 5>>]
LoopbackV6   == [kind |-> "v6", octets |-> <<0, 0, 0, 1>>]
NoAddrHost   == [kind |-> "none", octets |-> <<0, 0, 0, 0>>]

Loopback127Host == [kind |-> "v4", octets |-> <<127, 0, 0, 1>>]
OtherHost    == [kind |-> "v4", octets |-> <<198, 51, 100, 9>>]

AllClients == {PublicHost, PrivateHost, LoopbackV6, Loopback127Host, NoAddrHost, OtherHost}

\* the hosts of specification Spec, and those of specification SpecLoopback
Clients == {PublicHost, PrivateHost, NoAddrHost}
LoopbackClients == {LoopbackV6, Loopback127Host, NoAddrHost}

RemoteAddr(c) ==
    CASE c.kind = "v4" -> DottedQuad(c.octets)
      [] c.kind = "v6" -> <<":", ":">> \o Dec(c.octets[4])
      [] OTHER         -> NoneIp

\* get_client_ip: no X-Forwarded-For header, so META.get('REMOTE_ADDR')
get_client_ip(c) == RemoteAddr(c)

Addresses == {RemoteAddr(c) : c \in AllClients} \ {NoneIp}

Paths == {"/"}

Countries == {"US"}
Cities == {"NYC"}
HandlerResponses == {"200"}
BlockReasons == {<<"abuse">>}

\* the addresses the operator blocks and unblocks
BlockArgs == {RemoteAddr(PublicHost)}
LoopbackBlockArgs == {RemoteAddr(LoopbackV6)}

(* ------------------------------------------------------------------ *)
(* State                                                               *)
(* ------------------------------------------------------------------ *)
VARIABLES
    now,          \* timezone.now(), in clock units
    blockedIPs,   \* the BlockedIP table: rows [ip_address, reason, created_at]
    memCache,     \* django.core.cache: key geolocation_<ip> -> entry or NoEntry
    geoRows,      \* the GeolocationCache table: rows [pk, ip_address, country, city, timestamp]
    nextPk,       \* the next primary key of GeolocationCache
    requestLogs,  \* the RequestLog table, in insertion order; an element stands for
                  \* "copies" rows that differ in their primary key only
    reqCount,     \* requests received so far
    wk,           \* per worker: position in __call__ and its locals
    lastFetch,    \* history: per address, the last returned resolve that looked up remotely
    suspiciousIPs, \* the SuspiciousIP table: rows [ip_address, reason, request_count, ...]
    op,           \* per operator: position in the block_ip command or the admin action
    det,          \* the detect_suspicious_ips task: position and locals
    batches       \* batches of requests ingested so far

vars == <<now, blockedIPs, memCache, geoRows, nextPk, requestLogs, reqCount, wk, lastFetch,
          suspiciousIPs, op, det, batches>>

\* what the middleware never touches
registryVars == <<suspiciousIPs, op, det, batches>>

\* history: the remote lookup a cached value comes from, when it was made and the
\* pair the call that made it returned
NoLookup == [at |-> -1, country |-> None, city |-> None]

\* cache.get's None
NoEntry == [country |-> None, city |-> None, set_at |-> -1, origin |-> NoLookup]

\* no GeolocationCache instance
NoRow ==
    [pk |-> 0, ip_address |-> NoneIp, country |-> None, city |-> None, timestamp |-> -1,
     origin |-> NoLookup]

NoResponse == [status |-> None, text |-> NoneIp]

NoFetch == [at |-> -1, gotField |-> FALSE]

IdleWorker ==
    [pc |-> "idle", client |-> NoAddrHost, ip |-> NoneIp, path |-> None, req |-> 0,
     response |-> NoResponse, country |-> None, city |-> None, cached |-> NoRow,
     outcome |-> None, returned |-> NoResponse,
     \* history of the request in progress
     gateSaw |-> FALSE, handlerCalls |-> 0, logCalls |-> 0,
     trace |-> <<>>, apiKind |-> None, prevFetch |-> NoFetch]

Operators == {"o1", "o2"}

\* an operator between two operations
IdleOperator ==
    [pc |-> "idle", kind |-> None, todo |-> <<>>, reason |-> NoneIp,
     blocked_count |-> 0, skipped_count |-> 0, outcome |-> None,
     \* history of the operation in progress
     sawEntry |-> FALSE, made |-> {}]

\* history: no earlier run of the task
NoRun ==
    [started_at |-> -1, one_hour_ago |-> -1, startLen |-> 0, seenLen |-> 0,
     flagged |-> {}, registry |-> {}, status |-> None, completed |-> {}]

\* the task between two runs
IdleDetector ==
    [pc |-> "idle", one_hour_ago |-> 0, todo |-> <<>>, runs |-> 0,
     \* history of the run in progress: when it started, the rows in RequestLog
     \* then and when its query was evaluated, and what the query gave
     started_at |-> -1, startLen |-> 0, seenLen |-> 0, flagged |-> {},
     \* history: the run before this one
     prev |-> NoRun]

\* a GeolocationCache row an earlier run of the process left in the database
EarlierRow(c) ==
    [pk |-> 1, ip_address |-> RemoteAddr(c), country |-> "US", city |-> "NYC", timestamp |-> 0,
     origin |-> [at |-> 0, country |-> "US", city |-> "NYC"]]

\* the tables of the middleware are empty
InitEmptyStores ==
    /\ now = 0
    /\ blockedIPs = {}
    /\ memCache = [a \in Addresses |-> NoEntry]
    /\ geoRows = {}
    /\ nextPk = 1
    /\ requestLogs = <<>>
    /\ reqCount = 0
    /\ wk = [w \in Workers |-> IdleWorker]
    /\ lastFetch = [a \in Addresses |-> NoFetch]

\* nothing flagged yet, no operator at work, the detector not running
InitRegistry ==
    /\ suspiciousIPs = {}
    /\ op = [o \in Operators |-> IdleOperator]
    /\ det = IdleDetector
    /\ batches = 0

\* the process starts with empty tables
InitEmpty == InitEmptyStores /\ InitRegistry

\* the process starts with the row an earlier run saved for client c
InitEarlier(c) ==
    /\ now = 0
    /\ blockedIPs = {}
    /\ memCache = [a \in Addresses |-> NoEntry]
    /\ geoRows = {EarlierRow(c)}
    /\ nextPk = 2
    /\ requestLogs = <<>>
    /\ reqCount = 0
    /\ wk = [w \in Workers |-> IdleWorker]
    /\ lastFetch = [a \in Addresses |->
                      IF a = RemoteAddr(c) THEN [at |-> 0, gotField |-> TRUE] ELSE NoFetch]
    /\ InitRegistry

Init == InitEmpty \/ InitEarlier(PublicHost)

WorkerBefore(v, w) == v = "w1" /\ w = "w2"

AllIdle == \A w \in Workers : wk[w].pc = "idle"

(* ------------------------------------------------------------------ *)
(* Block List                                                          *)
(* ------------------------------------------------------------------ *)
\* BlockedIP.objects.filter(ip_address=ip).exists()
BlockedExists(ip) == \E b \in blockedIPs : b.ip_address = ip

\* variants of is_ip_blocked: the test negated, and a membership answer that is
\* only refreshed when the clock advances
is_ip_blocked_negated(ip_address) == ~ \E b \in blockedIPs : b.ip_address = ip_address
is_ip_blocked_stale(ip_address) ==
    \E b \in blockedIPs : b.ip_address = ip_address /\ b.created_at < now

is_ip_blocked(ip_address) == BlockedExists(ip_address)

\* HttpResponseForbidden(f"Access denied. Your IP address ({client_ip}) has been blocked.")
ForbiddenResponse(client_ip) == [status |-> "403", text |-> client_ip]

\* block_ip command, one address of its argument list
BlockIp(ip, reason) ==
    /\ IF BlockedExists(ip)
       THEN UNCHANGED blockedIPs
       ELSE blockedIPs' = blockedIPs \cup
                {[ip_address |-> ip, reason |-> reason, created_at |-> now]}
    /\ UNCHANGED <<now, memCache, geoRows, nextPk, requestLogs, reqCount, wk, lastFetch, registryVars>>

\* the operator deletes a BlockedIP row in the admin
UnblockIp(ip) ==
    /\ BlockedExists(ip)
    /\ blockedIPs' = {b \in blockedIPs : b.ip_address # ip}
    /\ UNCHANGED <<now, memCache, geoRows, nextPk, requestLogs, reqCount, wk, lastFetch, registryVars>>

(* ------------------------------------------------------------------ *)
(* Request Gate: IPTrackingMiddleware.__call__                         *)
(* ------------------------------------------------------------------ *)
Receive(w, c, p) ==
    /\ wk[w].pc = "idle"
    \* workers are interchangeable: the request goes to the first idle one
    /\ \A v \in Workers : wk[v].pc = "idle" => ~ WorkerBefore(v, w)
    /\ reqCount < MaxRequests
    /\ reqCount' = reqCount + 1
    /\ wk' = [wk EXCEPT ![w] = [IdleWorker EXCEPT
                 !.pc = "gate", !.client = c, !.ip = get_client_ip(c),
                 !.path = p, !.req = reqCount + 1]]
    /\ UNCHANGED <<now, blockedIPs, memCache, geoRows, nextPk, requestLogs, lastFetch, registryVars>>

GateCheck(w) ==
    /\ wk[w].pc = "gate"
    /\ wk' = [wk EXCEPT ![w] =
          IF is_ip_blocked(wk[w].ip)
          THEN [@ EXCEPT !.pc = "done", !.outcome = "returned",
                         !.returned = ForbiddenResponse(wk[w].ip),
                         !.gateSaw = BlockedExists(wk[w].ip)]
          ELSE [@ EXCEPT !.pc = "handler",
                         !.gateSaw = BlockedExists(wk[w].ip)]]
    /\ UNCHANGED <<now, blockedIPs, memCache, geoRows, nextPk, requestLogs, reqCount, lastFetch, registryVars>>

\* response = self.get_response(request)
CallHandler(w, r) ==
    /\ wk[w].pc = "handler"
    /\ wk' = [wk EXCEPT ![w] = [@ EXCEPT !.pc = "log",
                                         !.response = [status |-> r, text |-> NoneIp],
                                         !.handlerCalls = @ + 1]]
    /\ UNCHANGED <<now, blockedIPs, memCache, geoRows, nextPk, requestLogs, reqCount, lastFetch, registryVars>>

(* ------------------------------------------------------------------ *)
(* Geolocation Resolver: IPTrackingMiddleware.get_geolocation_data     *)
(* ------------------------------------------------------------------ *)
Loopback127 == <<"1", "2", "7", ".", "0", ".", "0", ".", "1">>
Localhost   == <<"l", "o", "c", "a", "l", "h", "o", "s", "t">>
Prefix10    == <<"1", "0", ".">>
Prefix192   == <<"1", "9", "2", ".", "1", "6", "8", ".">>
Prefix172   == <<"1", "7", "2", ".">>

\* None.startswith raises AttributeError ("None in [...]" is just False)
IsPrivateRaises(ip_address) == ip_address = NoneIp

is_private_ip(ip_address) ==
    \/ ip_address \in {Loopback127, Localhost}
    \/ StartsWith(ip_address, Prefix10)
    \/ StartsWith(ip_address, Prefix192)
    \/ StartsWith(ip_address, Prefix172)

\* a str is truthy when it is neither None nor empty
Truthy(x) == x # None /\ x # ""

\* variant of is_expired: the comparison the wrong way round
is_expired_inverted(row) == now < row.timestamp + ExpiryDelta

\* GeolocationCache.is_expired
is_expired(row) == now > row.timestamp + ExpiryDelta

\* the in-process cache serves an entry until its timeout has passed
MemValid(entry) == entry # NoEntry /\ now < entry.set_at + CacheTimeout

\* variant of get_cached_geolocation: the key never matches
get_cached_geolocation_miss(ip_address) == NoEntry

get_cached_geolocation(ip_address) ==
    IF MemValid(memCache[ip_address]) THEN memCache[ip_address] ELSE NoEntry

\* cache_geolocation: the entry cache.set stores
CacheData(country, city, origin) ==
    [country |-> country, city |-> city, set_at |-> now, origin |-> origin]

\* variants of the guard: "and" for "or", and no guard
ShouldCacheBoth(country, city) == Truthy(country) /\ Truthy(city)
ShouldCacheAlways(country, city) == TRUE

\* "if country or city": whether a remote result is cached at all
ShouldCache(country, city) == Truthy(country) \/ Truthy(city)

\* variant of OrUnknown: the default dropped
OrUnknownKept(x) == x

\* country or 'Unknown'
OrUnknown(x) == IF Truthy(x) THEN x ELSE "Unknown"

\* the remote service's answers: an exception (network error, timeout, malformed
\* payload), an error message, or a payload with each field present or absent
ApiResponses ==
    {[raised |-> TRUE, message |-> FALSE, country_name |-> None, city |-> None],
     [raised |-> FALSE, message |-> TRUE, country_name |-> None, city |-> None]}
    \cup {[raised |-> FALSE, message |-> FALSE, country_name |-> c, city |-> d] :
            c \in Countries \cup {None}, d \in Cities \cup {None}}

ApiFailed(resp) == resp.raised \/ resp.message

fetch_geolocation_from_api(resp) ==
    IF resp.raised THEN <<None, None>>
    ELSE IF ~resp.message THEN <<resp.country_name, resp.city>>
    ELSE <<None, None>>

RowsFor(ip_address) == {r \in geoRows : r.ip_address = ip_address}

\* variant of UniqueViolation: the column not declared unique
NoUniqueConstraint(rows, ip_address) == FALSE

\* unique=True on GeolocationCache.ip_address
UniqueViolation(rows, ip_address) == \E r \in rows : r.ip_address = ip_address

\* RequestLog.ip_address is not nullable
NotNullViolation(ip_address) == ip_address = NoneIp

\* history: the remote lookup made now that returned (country, city)
Lookup(country, city) == [at |-> now, country |-> country, city |-> city]

\* the rows update_or_create leaves when a row of the address exists
UpdatedRows(ip_address, country, city) ==
    {IF r.ip_address = ip_address
     THEN [r EXCEPT !.country = OrUnknown(country), !.city = OrUnknown(city),
                    !.origin = Lookup(country, city)]
     ELSE r : r \in geoRows}

\* history: the resolve of worker w, which looked up remotely, returns
Returned(w, country, city) ==
    [lastFetch EXCEPT ![wk[w].ip] =
        [at |-> now, gotField |-> country # None \/ city # None]]

\* history: whether a tier holds a live value of the address when it is consulted
MemHolds(ip) == memCache[ip] # NoEntry /\ now < memCache[ip].set_at + CacheTimeout
DurableHolds(ip) == \E r \in geoRows : r.ip_address = ip /\ now - r.timestamp <= ExpiryDelta

Consulted(w, tier, held) == Append(wk[w].trace, [tier |-> tier, held |-> held])

\* log_request up to the private-address test of get_geolocation_data
LogRequest(w) ==
    /\ wk[w].pc = "log"
    /\ wk' = [wk EXCEPT ![w] =
          IF IsPrivateRaises(wk[w].ip)
          THEN [@ EXCEPT !.pc = "fallback", !.logCalls = @ + 1]
          ELSE IF is_private_ip(wk[w].ip)
          THEN [@ EXCEPT !.pc = "create", !.logCalls = @ + 1,
                         !.country = None, !.city = None]
          ELSE [@ EXCEPT !.pc = "cache", !.logCalls = @ + 1,
                         !.prevFetch = lastFetch[wk[w].ip]]]
    /\ UNCHANGED <<now, blockedIPs, memCache, geoRows, nextPk, requestLogs, reqCount, lastFetch, registryVars>>

\* cached_data = self.get_cached_geolocation(ip_address)
CacheLookup(w) ==
    LET ip == wk[w].ip
        cached_data == get_cached_geolocation(ip)
    IN  /\ wk[w].pc = "cache"
        /\ wk' = [wk EXCEPT ![w] =
              IF cached_data # NoEntry
              THEN [@ EXCEPT !.pc = "create",
                             !.trace = Consulted(w, "memory", MemHolds(ip)),
                             !.country = cached_data.country, !.city = cached_data.city]
              ELSE [@ EXCEPT !.pc = "db",
                             !.trace = Consulted(w, "memory", MemHolds(ip))]]
        \* an entry past its timeout is dropped when it is looked up
        /\ memCache' = IF cached_data = NoEntry
                       THEN [memCache EXCEPT ![ip] = NoEntry] ELSE memCache
        /\ UNCHANGED <<now, blockedIPs, geoRows, nextPk, requestLogs, reqCount, lastFetch, registryVars>>

\* get_db_cached_geolocation: GeolocationCache.objects.get and is_expired
DbLookup(w) ==
    LET rows == RowsFor(wk[w].ip)
        seen == Consulted(w, "durable", DurableHolds(wk[w].ip))
    IN  /\ wk[w].pc = "db"
        /\ wk' = [wk EXCEPT ![w] =
              IF rows = {}
              THEN [@ EXCEPT !.pc = "api", !.trace = seen]
              ELSE IF Cardinality(rows) > 1      \* MultipleObjectsReturned
              THEN [@ EXCEPT !.pc = "fallback", !.trace = seen]
              ELSE LET cached == CHOOSE r \in rows : TRUE
                   IN  [@ EXCEPT !.pc = IF is_expired(cached) THEN "expire" ELSE "fill",
                                 !.trace = seen, !.cached = cached]]
        /\ UNCHANGED <<now, blockedIPs, memCache, geoRows, nextPk, requestLogs, reqCount, lastFetch, registryVars>>

\* cached.delete()
DbExpire(w) ==
    /\ wk[w].pc = "expire"
    /\ geoRows' = {r \in geoRows : r.pk # wk[w].cached.pk}
    /\ wk' = [wk EXCEPT ![w] = [@ EXCEPT !.pc = "api"]]
    /\ UNCHANGED <<now, blockedIPs, memCache, nextPk, requestLogs, reqCount, lastFetch, registryVars>>

\* a durable hit: cache_geolocation(ip, db_cached.country, db_cached.city) and return
DbFill(w) ==
    LET db_cached == wk[w].cached
    IN  /\ wk[w].pc = "fill"
        /\ memCache' = [memCache EXCEPT ![wk[w].ip] =
                            CacheData(db_cached.country, db_cached.city, db_cached.origin)]
        /\ wk' = [wk EXCEPT ![w] = [@ EXCEPT !.pc = "create",
                        !.country = db_cached.country, !.city = db_cached.city]]
        /\ UNCHANGED <<now, blockedIPs, geoRows, nextPk, requestLogs, reqCount, lastFetch, registryVars>>

\* country, city = self.fetch_geolocation_from_api(ip_address)
ApiFetch(w, resp) ==
    LET res == fetch_geolocation_from_api(resp)
        cache_it == ShouldCache(res[1], res[2])
    IN  /\ wk[w].pc = "api"
        /\ wk' = [wk EXCEPT ![w] = [@ EXCEPT
                        !.pc = IF cache_it THEN "store" ELSE "create",
                        !.trace = Consulted(w, "remote", ~ApiFailed(resp)),
                        !.apiKind = IF ApiFailed(resp) THEN "failed" ELSE "ok",
                        !.country = res[1], !.city = res[2]]]
        /\ lastFetch' = IF cache_it THEN lastFetch ELSE Returned(w, res[1], res[2])
        /\ UNCHANGED <<now, blockedIPs, memCache, geoRows, nextPk, requestLogs, reqCount, registryVars>>

\* self.cache_geolocation(ip_address, country, city)
CacheStore(w) ==
    /\ wk[w].pc = "store"
    /\ memCache' = [memCache EXCEPT ![wk[w].ip] =
            CacheData(wk[w].country, wk[w].city, Lookup(wk[w].country, wk[w].city))]
    /\ wk' = [wk EXCEPT ![w] = [@ EXCEPT !.pc = "save"]]
    /\ UNCHANGED <<now, blockedIPs, geoRows, nextPk, requestLogs, reqCount, lastFetch, registryVars>>

\* save_to_db_cache: update_or_create finds the row and updates it, or goes on to insert
DbSave(w) ==
    LET rows == RowsFor(wk[w].ip)
    IN  /\ wk[w].pc = "save"
        /\ geoRows' = IF Cardinality(rows) = 1
                      THEN UpdatedRows(wk[w].ip, wk[w].country, wk[w].city)
                      ELSE geoRows     \* none yet, or MultipleObjectsReturned, swallowed
        /\ wk' = [wk EXCEPT ![w] = [@ EXCEPT !.pc = IF rows = {} THEN "insert" ELSE "create"]]
        /\ lastFetch' = IF rows = {} THEN lastFetch
                        ELSE Returned(w, wk[w].country, wk[w].city)
        /\ UNCHANGED <<now, blockedIPs, memCache, nextPk, requestLogs, reqCount, registryVars>>

\* update_or_create's insert; on a unique violation it re-reads the row and updates it
DbInsert(w) ==
    LET ip == wk[w].ip
    IN  /\ wk[w].pc = "insert"
        /\ IF UniqueViolation(geoRows, ip)
           THEN /\ geoRows' = UpdatedRows(ip, wk[w].country, wk[w].city)
                /\ UNCHANGED nextPk
           ELSE /\ geoRows' = geoRows \cup
                       {[pk |-> nextPk, ip_address |-> ip,
                         country |-> OrUnknown(wk[w].country),
                         city |-> OrUnknown(wk[w].city), timestamp |-> now,
                         origin |-> Lookup(wk[w].country, wk[w].city)]}
                /\ nextPk' = nextPk + 1
        /\ wk' = [wk EXCEPT ![w] = [@ EXCEPT !.pc = "create"]]
        /\ lastFetch' = Returned(w, wk[w].country, wk[w].city)
        /\ UNCHANGED <<now, blockedIPs, memCache, requestLogs, reqCount, registryVars>>

(* ------------------------------------------------------------------ *)
(* Request Ingestor: the rest of log_request, and __call__'s return    *)
(* ------------------------------------------------------------------ *)
LogRow(w, country, city) ==
    [req |-> wk[w].req, ip_address |-> wk[w].ip, path |-> wk[w].path,
     country |-> country, city |-> city, timestamp |-> now, copies |-> 1]

\* RequestLog.objects.create(ip_address, path, country, city); return response
CreateLog(w) ==
    /\ wk[w].pc = "create"
    /\ requestLogs' = Append(requestLogs, LogRow(w, wk[w].country, wk[w].city))
    /\ wk' = [wk EXCEPT ![w] = [@ EXCEPT !.pc = "done", !.outcome = "returned",
                                         !.returned = wk[w].response]]
    /\ UNCHANGED <<now, blockedIPs, memCache, geoRows, nextPk, reqCount, lastFetch, registryVars>>

\* the except branch: RequestLog.objects.create(ip_address, path), outside any try
FallbackCreate(w) ==
    /\ wk[w].pc = "fallback"
    /\ IF NotNullViolation(wk[w].ip)
       THEN /\ UNCHANGED requestLogs
            /\ wk' = [wk EXCEPT ![w] = [@ EXCEPT !.pc = "done", !.outcome = "raised"]]
       ELSE /\ requestLogs' = Append(requestLogs, LogRow(w, None, None))
            /\ wk' = [wk EXCEPT ![w] = [@ EXCEPT !.pc = "done", !.outcome = "returned",
                                                 !.returned = wk[w].response]]
    /\ UNCHANGED <<now, blockedIPs, memCache, geoRows, nextPk, reqCount, lastFetch, registryVars>>

\* the request is over; the worker takes the next one
Finish(w) ==
    /\ wk[w].pc = "done"
    /\ wk' = [wk EXCEPT ![w] = IdleWorker]
    /\ UNCHANGED <<now, blockedIPs, memCache, geoRows, nextPk, requestLogs, reqCount, lastFetch, registryVars>>

(* ------------------------------------------------------------------ *)
(* Environment                                                         *)
(* ------------------------------------------------------------------ *)
Tick ==
    /\ AllIdle
    /\ now < MaxTime
    /\ now' = now + 1
    /\ UNCHANGED <<blockedIPs, memCache, geoRows, nextPk, requestLogs, reqCount, wk, lastFetch, registryVars>>

\* the process restarts: the LocMemCache of settings.CACHES is lost
Restart ==
    /\ AllIdle
    /\ \E a \in Addresses : memCache[a] # NoEntry
    /\ memCache' = [a \in Addresses |-> NoEntry]
    /\ UNCHANGED <<now, blockedIPs, geoRows, nextPk, requestLogs, reqCount, wk, lastFetch, registryVars>>

NextFor(clients, blockArgs) ==
    \/ \E w \in Workers, c \in clients, p \in Paths : Receive(w, c, p)
    \/ \E w \in Workers : GateCheck(w)
    \/ \E w \in Workers, r \in HandlerResponses : CallHandler(w, r)
    \/ \E w \in Workers : LogRequest(w)
    \/ \E w \in Workers : CacheLookup(w)
    \/ \E w \in Workers : DbLookup(w)
    \/ \E w \in Workers : DbExpire(w)
    \/ \E w \in Workers : DbFill(w)
    \/ \E w \in Workers, resp \in ApiResponses : ApiFetch(w, resp)
    \/ \E w \in Workers : CacheStore(w)
    \/ \E w \in Workers : DbSave(w)
    \/ \E w \in Workers : DbInsert(w)
    \/ \E w \in Workers : CreateLog(w)
    \/ \E w \in Workers : FallbackCreate(w)
    \/ \E w \in Workers : Finish(w)
    \/ \E a \in blockArgs, reason \in BlockReasons : BlockIp(a, reason)
    \/ \E a \in blockArgs : UnblockIp(a)
    \/ Tick
    \/ Restart

Next == NextFor(Clients, BlockArgs)

Spec == Init /\ [][Next]_vars

NextLoopback == NextFor(LoopbackClients, LoopbackBlockArgs)

SpecLoopback == InitEmpty /\ [][NextLoopback]_vars

(* ------------------------------------------------------------------ *)
(* Block List writers: the block_ip command and the admin action        *)
(* block_selected_ips, each an exists-check followed by a create        *)
(* ------------------------------------------------------------------ *)
\* f"High request frequency: {request_count} requests in the last hour"
HighFrequencyReason(request_count) ==
    <<"High request frequency: ">> \o Dec(request_count) \o <<" requests in the last hour">>

\* a SuspiciousIP row an earlier run of the detector left for address a
FlaggedEarlier(a) ==
    [ip_address |-> a, reason |-> HighFrequencyReason(150), request_count |-> 150,
     first_detected |-> 0, last_detected |-> 0, is_active |-> TRUE,
     country |-> None, city |-> None]

\* the operators start with two addresses flagged and nothing blocked
InitBlock ==
    /\ InitEmptyStores
    /\ suspiciousIPs = {FlaggedEarlier(RemoteAddr(PublicHost)),
                        FlaggedEarlier(RemoteAddr(OtherHost))}
    /\ op = [o \in Operators |-> IdleOperator]
    /\ det = IdleDetector
    /\ batches = 0

\* the ip_addresses arguments of the command, and its --reason (None when not given)
CommandArgs == {<<RemoteAddr(PublicHost)>>, <<RemoteAddr(PublicHost), RemoteAddr(PublicHost)>>}
ReasonArgs == {<<"abuse">>, NoneIp}

\* the reasons an operator gives a SuspiciousIP row in its change form
EditedReasons == {HighFrequencyReason(120)}

\* variant of BlockedUniqueViolation: the column not declared unique
BlockedNotUnique(ip_address) == FALSE

\* unique=True on BlockedIP.ip_address
BlockedUniqueViolation(ip_address) == \E b \in blockedIPs : b.ip_address = ip_address

\* variant of CiteReason: the SuspiciousIP's reason left out
CiteNothing(reason) == <<"Blocked from suspicious IP list: ">>

\* f"Blocked from suspicious IP list: {suspicious_ip.reason}"
CiteReason(reason) == <<"Blocked from suspicious IP list: ">> \o reason

\* BlockedIP.objects.create(ip_address, reason)
NewBlockedIP(ip_address, reason) ==
    [ip_address |-> ip_address, reason |-> reason, created_at |-> now]

\* the rows of a queryset in the order of Meta.ordering = ['-last_detected']
OrderedRows(rows) ==
    CHOOSE q \in [1..Cardinality(rows) -> rows] :
        /\ \A i, j \in DOMAIN q : i # j => q[i] # q[j]
        /\ \A i, j \in DOMAIN q : i < j => q[i].last_detected >= q[j].last_detected

\* the rows an operator ticks in the SuspiciousIP change list, by address
Selections == {{RemoteAddr(PublicHost)}}

gateVars == <<memCache, geoRows, nextPk, requestLogs, reqCount, wk, lastFetch, batches>>

\* manage.py block_ip <ips> [--reason r]; the arguments are dotted quads, which
\* to_python returns unchanged
CmdStart(o, ips, reason) ==
    /\ op[o].pc = "idle"
    /\ op' = [op EXCEPT ![o] = [IdleOperator EXCEPT
                 !.pc = "check", !.kind = "block_ip", !.todo = ips, !.reason = reason]]
    /\ UNCHANGED <<now, blockedIPs, suspiciousIPs, det, gateVars>>

\* if BlockedIP.objects.filter(ip_address=ip).exists(): skipped_count += 1; continue
CmdCheck(o) ==
    LET ip == Head(op[o].todo)
    IN  /\ op[o].pc = "check" /\ op[o].kind = "block_ip"
        /\ op' = [op EXCEPT ![o] =
              IF BlockedExists(ip)
              THEN [@ EXCEPT !.skipped_count = @ + 1, !.todo = Tail(@),
                             !.sawEntry = TRUE,
                             !.pc = IF Len(op[o].todo) > 1 THEN "check" ELSE "done",
                             !.outcome = IF Len(op[o].todo) > 1 THEN None ELSE "returned"]
              ELSE [@ EXCEPT !.pc = "create"]]
        /\ UNCHANGED <<now, blockedIPs, suspiciousIPs, det, gateVars>>

\* try: BlockedIP.objects.create(...); blocked_count += 1
\* except Exception: skipped_count += 1
CmdCreate(o) ==
    LET ip == Head(op[o].todo)
        failed == BlockedUniqueViolation(ip)
    IN  /\ op[o].pc = "create" /\ op[o].kind = "block_ip"
        /\ blockedIPs' = IF failed THEN blockedIPs
                         ELSE blockedIPs \cup {NewBlockedIP(ip, op[o].reason)}
        /\ op' = [op EXCEPT ![o] = [@ EXCEPT
                     !.blocked_count = IF failed THEN @ ELSE @ + 1,
                     !.skipped_count = IF failed THEN @ + 1 ELSE @,
                     !.made = IF failed THEN @ ELSE @ \cup {ip},
                     !.todo = Tail(@),
                     !.pc = IF Len(op[o].todo) > 1 THEN "check" ELSE "done",
                     !.outcome = IF Len(op[o].todo) > 1 THEN None ELSE "returned"]]
        /\ UNCHANGED <<now, suspiciousIPs, det, gateVars>>

\* the admin action on the selected rows: "for suspicious_ip in queryset" reads them
PromoteStart(o, selected) ==
    /\ op[o].pc = "idle"
    /\ \E s \in suspiciousIPs : s.ip_address \in selected
    /\ op' = [op EXCEPT ![o] = [IdleOperator EXCEPT
                 !.pc = "check", !.kind = "block_selected_ips",
                 !.todo = OrderedRows({s \in suspiciousIPs : s.ip_address \in selected})]]
    /\ UNCHANGED <<now, blockedIPs, suspiciousIPs, det, gateVars>>

\* if not BlockedIP.objects.filter(ip_address=suspicious_ip.ip_address).exists():
PromoteCheck(o) ==
    LET suspicious_ip == Head(op[o].todo)
    IN  /\ op[o].pc = "check" /\ op[o].kind = "block_selected_ips"
        /\ op' = [op EXCEPT ![o] =
              IF BlockedExists(suspicious_ip.ip_address)
              THEN [@ EXCEPT !.todo = Tail(@), !.sawEntry = TRUE,
                             !.pc = IF Len(op[o].todo) > 1 THEN "check" ELSE "done",
                             !.outcome = IF Len(op[o].todo) > 1 THEN None ELSE "returned"]
              ELSE [@ EXCEPT !.pc = "create"]]
        /\ UNCHANGED <<now, blockedIPs, suspiciousIPs, det, gateVars>>

\* BlockedIP.objects.create(...), in no try: an IntegrityError ends the action
PromoteCreate(o) ==
    LET suspicious_ip == Head(op[o].todo)
        ip == suspicious_ip.ip_address
    IN  /\ op[o].pc = "create" /\ op[o].kind = "block_selected_ips"
        /\ IF BlockedUniqueViolation(ip)
           THEN /\ UNCHANGED blockedIPs
                /\ op' = [op EXCEPT ![o] = [@ EXCEPT !.pc = "done", !.outcome = "raised"]]
           ELSE /\ blockedIPs' = blockedIPs \cup
                       {NewBlockedIP(ip, CiteReason(suspicious_ip.reason))}
                /\ op' = [op EXCEPT ![o] = [@ EXCEPT
                             !.made = @ \cup {ip}, !.todo = Tail(@),
                             !.pc = IF Len(op[o].todo) > 1 THEN "check" ELSE "done",
                             !.outcome = IF Len(op[o].todo) > 1 THEN None ELSE "returned"]]
        /\ UNCHANGED <<now, suspiciousIPs, det, gateVars>>

\* variant of MarkedInactive: every row saved, as Model.save() would
MarkedInactiveSaved(registry, selected) ==
    {IF s.ip_address \in selected
     THEN [s EXCEPT !.is_active = FALSE, !.last_detected = now] ELSE s : s \in registry}

\* queryset.update(is_active=False): one UPDATE of the selected rows
MarkedInactive(registry, selected) ==
    {IF s.ip_address \in selected THEN [s EXCEPT !.is_active = FALSE] ELSE s :
        s \in registry}

\* the admin action mark_as_inactive on the selected rows
MarkInactive(o, selected) ==
    /\ op[o].pc = "idle"
    /\ \E s \in suspiciousIPs : s.ip_address \in selected
    /\ suspiciousIPs' = MarkedInactive(suspiciousIPs, selected)
    /\ op' = [op EXCEPT ![o] = [IdleOperator EXCEPT
                 !.pc = "done", !.kind = "mark_as_inactive", !.outcome = "returned",
                 !.made = selected,
                 !.sawEntry = \A s \in suspiciousIPs :
                                 s.ip_address \in selected => ~s.is_active]]
    /\ UNCHANGED <<now, blockedIPs, det, gateVars>>

\* the command has written its summary, or the action its message (or its error)
OperatorFinish(o) ==
    /\ op[o].pc = "done"
    /\ op' = [op EXCEPT ![o] = IdleOperator]
    /\ UNCHANGED <<now, blockedIPs, suspiciousIPs, det, gateVars>>

\* an operator saves a new reason in the change form of a SuspiciousIP row
EditReason(a, reason) ==
    /\ \E s \in suspiciousIPs : s.ip_address = a /\ s.reason # reason
    /\ suspiciousIPs' = {IF s.ip_address = a
                         THEN [s EXCEPT !.reason = reason, !.last_detected = now]
                         ELSE s : s \in suspiciousIPs}
    /\ UNCHANGED <<now, blockedIPs, op, det, gateVars>>

NextBlock ==
    \/ \E o \in Operators, ips \in CommandArgs, reason \in ReasonArgs : CmdStart(o, ips, reason)
    \/ \E o \in Operators : CmdCheck(o)
    \/ \E o \in Operators : CmdCreate(o)
    \/ \E o \in Operators, selected \in Selections : PromoteStart(o, selected)
    \/ \E o \in Operators : PromoteCheck(o)
    \/ \E o \in Operators : PromoteCreate(o)
    \/ \E o \in Operators, selected \in Selections : MarkInactive(o, selected)
    \/ \E o \in Operators : OperatorFinish(o)
    \/ \E a \in BlockArgs, reason \in EditedReasons : EditReason(a, reason)
    \/ \E a \in BlockArgs : UnblockIp(a)
    \/ Tick

SpecBlock == InitBlock /\ [][NextBlock]_vars

(* ------------------------------------------------------------------ *)
(* Anomaly Detector: the task detect_suspicious_ips and the admin       *)
(* action mark_as_inactive.  In specification SpecDetector one clock    *)
(* unit is DetectorTickSeconds, and the traffic touches no sensitive    *)
(* path, so that only detect_high_frequency_ips finds candidates.       *)
(* ------------------------------------------------------------------ *)
DetectorTickSeconds == 60 * 60

\* timedelta(hours=1), in clock units
WindowDelta == (60 * 60) \div DetectorTickSeconds

\* request_count__gt=100
Threshold == 100

\* the traffic: batches of requests of one address, each request logged by log_request
Traffic ==
    {<<RemoteAddr(PublicHost), "/", 100>>, <<RemoteAddr(PublicHost), "/", 1>>,
     <<RemoteAddr(OtherHost), "/", 1>>}

\* the traffic of specification SpecRepeat: 150 requests, or 60, of one address
RepeatTraffic ==
    {<<RemoteAddr(PublicHost), "/", 150>>, <<RemoteAddr(PublicHost), "/", 60>>}

\* the traffic of specifications SpecHeuristics and SpecFault: one request to
\* /admin/login, or 150 requests to /, of one address, and one request to a harmless
\* path of another
HeuristicsTraffic ==
    {<<RemoteAddr(PublicHost), "/admin/login", 1>>,
     <<RemoteAddr(PublicHost), "/", 150>>,
     <<RemoteAddr(OtherHost), "/about", 1>>}

\* the RequestLog rows of n requests whose lookups gave no location
IngestedRows(req, ip_address, path, n) ==
    [req |-> req, ip_address |-> ip_address, path |-> path,
     country |-> None, city |-> None, timestamp |-> now, copies |-> n]

\* n admitted requests of address a arrive and are logged within one clock unit
Ingest(a, p, n) ==
    /\ batches < MaxBatches
    /\ batches' = batches + 1
    /\ reqCount' = reqCount + n
    /\ requestLogs' = Append(requestLogs, IngestedRows(reqCount + 1, a, p, n))
    /\ UNCHANGED <<now, blockedIPs, memCache, geoRows, nextPk, wk, lastFetch,
                   suspiciousIPs, op, det>>

\* the characters of the paths requested
PathChars(path) ==
    CASE path = "/" -> <<"/">>
      [] path = "/about" -> <<"/", "a", "b", "o", "u", "t">>
      [] path = "/admin/login" -> <<"/", "a", "d", "m", "i", "n", "/", "l", "o", "g", "i", "n">>
      [] path = "/x/../admin/" -> <<"/", "x", "/", ".", ".", "/", "a", "d", "m", "i", "n", "/">>
      [] path = "/Admin" -> <<"/", "A", "d", "m", "i", "n">>
      [] path = "/adm/in" -> <<"/", "a", "d", "m", "/", "i", "n">>

\* SuspiciousIP.get_sensitive_paths()
get_sensitive_paths ==
    {<<"/", "a", "d", "m", "i", "n", "/">>,
     <<"/", "a", "d", "m", "i", "n">>,
     <<"/", "l", "o", "g", "i", "n", "/">>,
     <<"/", "l", "o", "g", "i", "n">>,
     <<"/", "a", "p", "i", "/">>,
     <<"/", "a", "p", "i", "/", "a", "u", "t", "h", "/">>,
     <<"/", "u", "s", "e", "r", "/">>,
     <<"/", "u", "s", "e", "r", "s", "/">>,
     <<"/", "a", "c", "c", "o", "u", "n", "t", "/">>,
     <<"/", "a", "c", "c", "o", "u", "n", "t", "s", "/">>,
     <<"/", "p", "a", "s", "s", "w", "o", "r", "d", "-", "r", "e", "s", "e", "t", "/">>,
     <<"/", "r", "e", "s", "e", "t", "-", "p", "a", "s", "s", "w", "o", "r", "d", "/">>,
     <<"/", "s", "e", "n", "s", "i", "t", "i", "v", "e", "-", "a", "c", "t", "i", "o", "n", "/">>,
     <<"/", "d", "a", "s", "h", "b", "o", "a", "r", "d", "/">>,
     <<"/", "r", "e", "q", "u", "e", "s", "t", "-", "l", "o", "g", "s", "/">>,
     <<"/", "b", "l", "o", "c", "k", "e", "d", "-", "i", "p", "s", "/">>}

\* variant of Occurs: at the start of the text only
OccursAtStart(part, text) == StartsWith(text, part)

\* Python's "part in text" for strings
Occurs(part, text) ==
    \E i \in 1..(Len(text) - Len(part) + 1) : SubSeq(text, i, i + Len(part) - 1) = part

\* any(sensitive_path in path for sensitive_path in sensitive_paths)
is_sensitive_path(path) ==
    \E sensitive_path \in get_sensitive_paths : Occurs(sensitive_path, PathChars(path))

\* variant of InWindow: the bound exclusive
InWindowStrict(row, one_hour_ago) == row.timestamp > one_hour_ago

\* filter(timestamp__gte=one_hour_ago)
InWindow(row, one_hour_ago) == row.timestamp >= one_hour_ago

\* the number of rows the elements at the given indices stand for
RECURSIVE CountRows(_)
CountRows(indices) ==
    IF indices = {} THEN 0
    ELSE LET i == CHOOSE j \in indices : TRUE
         IN  requestLogs[i].copies + CountRows(indices \ {i})

\* values('ip_address').annotate(request_count=Count('id')): the count of one group
GroupCount(ip_address, one_hour_ago) ==
    CountRows({i \in DOMAIN requestLogs :
                  /\ InWindow(requestLogs[i], one_hour_ago)
                  /\ requestLogs[i].ip_address = ip_address})

\* variant of OverThreshold: the bound inclusive
OverThresholdInclusive(request_count) == request_count >= Threshold

\* filter(request_count__gt=100)
OverThreshold(request_count) == request_count > Threshold

\* the rows of the queryset high_frequency_ips
high_frequency_ips(one_hour_ago) ==
    LET groups == {requestLogs[i].ip_address : i \in
                      {j \in DOMAIN requestLogs : InWindow(requestLogs[j], one_hour_ago)}}
    IN  {[ip_address |-> a, request_count |-> GroupCount(a, one_hour_ago)] :
            a \in {g \in groups : OverThreshold(GroupCount(g, one_hour_ago))}}

\* a queryset's rows in the order the iteration yields them
IterationOrder(rows) ==
    CHOOSE q \in [1..Cardinality(rows) -> rows] : \A i, j \in DOMAIN q : i # j => q[i] # q[j]

\* RequestLog.objects.filter(ip_address=...).order_by('-timestamp').first()
latest_request(ip_address) ==
    LET mine == {i \in DOMAIN requestLogs : requestLogs[i].ip_address = ip_address}
    IN  IF mine = {} THEN IngestedRows(0, NoneIp, None, 0)
        ELSE requestLogs[CHOOSE i \in mine :
                 \A j \in mine : /\ requestLogs[j].timestamp <= requestLogs[i].timestamp
                                 /\ requestLogs[j].timestamp = requestLogs[i].timestamp => j <= i]

\* variant of ExistingEntries: get_or_create never finds the row
ExistingEntriesNone(ip_address) == {}

\* get_or_create's lookup: SuspiciousIP.objects.get(ip_address=ip_address)
ExistingEntries(ip_address) == {s \in suspiciousIPs : s.ip_address = ip_address}

\* get_or_create's create: the defaults given, and those of the model
CreatedEntry(ip_address, reason, request_count, country, city) ==
    [ip_address |-> ip_address, reason |-> reason, request_count |-> request_count,
     first_detected |-> now, last_detected |-> now, is_active |-> TRUE,
     country |-> country, city |-> city]

\* variant of UpdatedEntry: the row treated as new
UpdatedEntryAsNew(suspicious_ip, reason, request_count) ==
    [suspicious_ip EXCEPT !.reason = reason, !.request_count = request_count,
                          !.first_detected = now]

\* if not created: suspicious_ip.reason = reason; suspicious_ip.request_count = ...
UpdatedEntry(suspicious_ip, reason, request_count) ==
    [suspicious_ip EXCEPT !.reason = reason, !.request_count = request_count]

\* the end of the update: last_detected is set to the time of the update and
\* the row is saved
SavedEntry(suspicious_ip) == [suspicious_ip EXCEPT !.last_detected = now]

detectorFrame == <<now, blockedIPs, memCache, geoRows, nextPk, requestLogs, reqCount, wk,
                   lastFetch, op, batches>>

\* history: what is kept of a run when it returns
FinishedRun(seenLen, flagged, registry, status, completed) ==
    [started_at |-> det.started_at, one_hour_ago |-> det.one_hour_ago,
     startLen |-> det.startLen, seenLen |-> seenLen, flagged |-> flagged,
     registry |-> registry, status |-> status, completed |-> completed]

\* the task returns {"status": ...}
ReturnedDetector(seenLen, flagged, registry, status, completed) ==
    [IdleDetector EXCEPT !.runs = det.runs,
                         !.prev = FinishedRun(seenLen, flagged, registry, status,
                                              completed)]

\* the rows of detect_sensitive_path_access: the addresses with a request to a
\* sensitive path in the window, and the number of those requests
sensitive_ips(one_hour_ago) ==
    LET hits == {i \in DOMAIN requestLogs :
                    /\ InWindow(requestLogs[i], one_hour_ago)
                    /\ is_sensitive_path(requestLogs[i].path)}
    IN  {[ip_address |-> a,
          request_count |-> CountRows({i \in hits : requestLogs[i].ip_address = a})] :
            a \in {requestLogs[i].ip_address : i \in hits}}

\* the reason of a sensitive-path candidate
SensitivePathReason(request_count) ==
    <<"Accessed sensitive paths: ">> \o Dec(request_count) \o <<" requests in the last hour">>

\* the upsert of one sensitive-path candidate; the reason of a heuristic that gave
\* the address a higher count in this run stays
SensitiveUpsert(registry, ip_data) ==
    LET ip_address == ip_data.ip_address
        reason == SensitivePathReason(ip_data.request_count)
        latest == latest_request(ip_address)
        existing == {s \in registry : s.ip_address = ip_address}
        outranked == \E f \in det.flagged :
                        /\ f.ip_address = ip_address
                        /\ f.request_count >= ip_data.request_count
    IN  IF existing = {}
        THEN registry \cup {CreatedEntry(ip_address, reason, ip_data.request_count,
                                         latest.country, latest.city)}
        ELSE IF outranked THEN registry
        ELSE {IF s \in existing
              THEN SavedEntry(UpdatedEntry(s, reason, ip_data.request_count))
              ELSE s : s \in registry}

RECURSIVE SensitiveUpserts(_, _)
SensitiveUpserts(registry, todo) ==
    IF todo = <<>> THEN registry
    ELSE SensitiveUpserts(SensitiveUpsert(registry, Head(todo)), Tail(todo))

\* what the task does when detect_high_frequency_ips has returned:
\* detect_sensitive_path_access(one_hour_ago); detect_scanning_behavior finds nothing,
\* RequestLog holding no response status
RestOfTask(registry) ==
    SensitiveUpserts(registry, IterationOrder(sensitive_ips(det.one_hour_ago)))

\* the heuristics of a run that returned success
AllHeuristics == {"high_frequency", "sensitive_path"}

\* one_hour_ago = timezone.now() - timedelta(hours=1)
DetStart ==
    /\ det.pc = "idle"
    /\ det.runs < MaxRuns
    /\ det' = [det EXCEPT !.pc = "query", !.one_hour_ago = now - WindowDelta,
                          !.runs = @ + 1,
                          !.started_at = now, !.startLen = Len(requestLogs)]
    /\ UNCHANGED <<suspiciousIPs, detectorFrame>>

\* "for ip_data in high_frequency_ips" evaluates the query; with no row in it
\* detect_high_frequency_ips returns and the rest of the task runs
DetQuery ==
    LET hits == high_frequency_ips(det.one_hour_ago)
        registry == RestOfTask(suspiciousIPs)
    IN  /\ det.pc = "query"
        /\ IF hits # {}
           THEN /\ det' = [det EXCEPT !.pc = "upsert", !.todo = IterationOrder(hits),
                                      !.flagged = hits, !.seenLen = Len(requestLogs)]
                /\ UNCHANGED suspiciousIPs
           ELSE /\ det' = ReturnedDetector(Len(requestLogs), {}, registry, "success",
                                           AllHeuristics)
                /\ suspiciousIPs' = registry
        /\ UNCHANGED detectorFrame

\* one iteration of the loop: reason, latest_request, and, in transaction.atomic(),
\* get_or_create and the update of a row that existed; after the last iteration
\* detect_high_frequency_ips returns and the rest of the task runs
DetUpsert ==
    LET ip_data == Head(det.todo)
        ip_address == ip_data.ip_address
        request_count == ip_data.request_count
        reason == HighFrequencyReason(request_count)
        latest == latest_request(ip_address)
        existing == ExistingEntries(ip_address)
        upserted ==
            IF existing = {}
            THEN suspiciousIPs \cup
                    {CreatedEntry(ip_address, reason, request_count,
                                  latest.country, latest.city)}
            ELSE {IF s \in existing
                  THEN SavedEntry(UpdatedEntry(s, reason, request_count))
                  ELSE s : s \in suspiciousIPs}
        registry == IF Len(det.todo) > 1 THEN upserted ELSE RestOfTask(upserted)
    IN  /\ det.pc = "upsert"
        /\ suspiciousIPs' = registry
        /\ det' = IF Len(det.todo) > 1
                  THEN [det EXCEPT !.todo = Tail(@)]
                  ELSE ReturnedDetector(det.seenLen, det.flagged, registry, "success",
                                        AllHeuristics)
        /\ UNCHANGED detectorFrame

\* a statement of detect_high_frequency_ips raises (a storage error): the except
\* clause of detect_suspicious_ips logs it and returns {"status": "error", ...}
DetFault ==
    /\ det.pc \in {"query", "upsert"}
    /\ det' = ReturnedDetector(det.seenLen, det.flagged, suspiciousIPs, "error", {})
    /\ UNCHANGED <<suspiciousIPs, detectorFrame>>

\* mark_as_inactive: queryset.update(is_active=False) on the selected rows
Deactivate(selected) ==
    /\ \E s \in suspiciousIPs : s.ip_address \in selected /\ s.is_active
    /\ suspiciousIPs' = MarkedInactive(suspiciousIPs, selected)
    /\ UNCHANGED <<det, detectorFrame>>

\* requests arrive, the task runs, time passes
DetectorSteps(traffic) ==
    \/ \E t \in traffic : Ingest(t[1], t[2], t[3])
    \/ DetStart
    \/ DetQuery
    \/ DetUpsert
    \/ Tick

\* the detector, and an operator who deactivates entries in the admin
NextDetectorFor(traffic) ==
    \/ DetectorSteps(traffic)
    \/ \E selected \in Selections : Deactivate(selected)

\* the detector, and an operator who also edits reasons in the admin
NextDetector ==
    \/ NextDetectorFor(Traffic)
    \/ \E a \in BlockArgs, reason \in EditedReasons : EditReason(a, reason)

SpecDetector == InitEmpty /\ [][NextDetector]_vars

NextRepeat == NextDetectorFor(RepeatTraffic)

SpecRepeat == InitEmpty /\ [][NextRepeat]_vars

\* the detector with both heuristics at work, no operator
NextHeuristics == DetectorSteps(HeuristicsTraffic)

SpecHeuristics == InitEmpty /\ [][NextHeuristics]_vars

\* the same, with storage errors
NextFault ==
    \/ DetectorSteps(HeuristicsTraffic)
    \/ DetFault

SpecFault == InitEmpty /\ [][NextFault]_vars

(* ------------------------------------------------------------------ *)
(* Properties                                                          *)
(* ------------------------------------------------------------------ *)
InTrace(w, tier) == \E i \in DOMAIN wk[w].trace : wk[w].trace[i].tier = tier

LogRowsOf(w) == {i \in DOMAIN requestLogs : requestLogs[i].req = wk[w].req}

\* C1: a request whose address is in the Block List at the gate check is answered
\* 403 with the address in the message; the handler and log_request are never
\* invoked and no RequestLog row is created for it; nothing precedes the check.
C1_BlockedIsRejected ==
    \A w \in Workers :
        /\ wk[w].pc = "gate" =>
              wk[w].handlerCalls = 0 /\ wk[w].logCalls = 0 /\ LogRowsOf(w) = {}
        /\ (wk[w].pc \notin {"idle", "gate"} /\ wk[w].gateSaw) =>
              /\ wk[w].pc = "done"
              /\ wk[w].outcome = "returned"
              /\ wk[w].returned.status = "403"
              /\ wk[w].returned.text = wk[w].ip
              /\ wk[w].handlerCalls = 0
              /\ wk[w].logCalls = 0
              /\ LogRowsOf(w) = {}

C1_Witness ==
    \E w \in Workers : wk[w].pc = "done" /\ wk[w].gateSaw /\ wk[w].ip # NoneIp

\* C2: a request whose address is not in the Block List at the gate check has the
\* handler invoked exactly once, log_request run only after the handler returned,
\* and the handler's response returned by the middleware.
C2_AdmittedReturnsHandlerResponse ==
    \A w \in Workers :
        /\ wk[w].logCalls > 0 => wk[w].handlerCalls = 1
        /\ (wk[w].pc = "done" /\ ~wk[w].gateSaw) =>
              /\ wk[w].handlerCalls = 1
              /\ wk[w].logCalls = 1
              /\ wk[w].outcome = "returned"
              /\ wk[w].returned = wk[w].response

\* C3: the gate answers from the Block List as it is when the check runs: a request
\* is rejected exactly when a BlockedIP row of its address exists at that moment,
\* so a row written before the check rejects and a row removed before it admits.
C3_GateReadsStore ==
    [][\A w \in Workers :
          (wk[w].pc = "gate" /\ wk'[w].pc # "gate") =>
              ((wk'[w].pc = "done" /\ wk'[w].returned.status = "403")
                 <=> (\E b \in blockedIPs : b.ip_address = wk[w].ip))]_vars

\* an address admitted and logged, blocked afterwards, and rejected on its next request
C3_Witness ==
    \E w \in Workers :
        /\ wk[w].pc = "done" /\ wk[w].returned.status = "403"
        /\ \E i \in DOMAIN requestLogs :
              requestLogs[i].ip_address = wk[w].ip /\ requestLogs[i].req < wk[w].req

WithinTtl(w) ==
    wk[w].prevFetch # NoFetch /\ now <= wk[w].prevFetch.at + CacheTimeout

InPrivateRange(c) ==
    \/ c.kind = "v4" /\ c.octets[1] \in {10, 127}
    \/ c.kind = "v4" /\ c.octets[1] = 172 /\ c.octets[2] \in 16..31
    \/ c.kind = "v4" /\ c.octets[1] = 192 /\ c.octets[2] = 168
    \/ c.kind = "v6" /\ c.octets = <<0, 0, 0, 1>>

\* C5: for a private-range address resolve returns (None, None), consults neither
\* cache nor the remote service, and no cache entry is written for the address.
C5_PrivateShortCircuits ==
    \A w \in Workers :
        (wk[w].pc # "idle" /\ InPrivateRange(wk[w].client)) =>
            /\ wk[w].trace = <<>>
            /\ wk[w].country = None /\ wk[w].city = None
            /\ memCache[wk[w].ip] = NoEntry
            /\ RowsFor(wk[w].ip) = {}

\* a resolve whose remote lookup succeeded has returned to log_request
ReturnedFromOkLookup(w) ==
    wk[w].pc = "create" /\ InTrace(w, "remote") /\ wk[w].apiKind = "ok"

ReadStaleRow(w) ==
    wk[w].cached # NoRow /\ now - wk[w].cached.timestamp > ExpiryDelta

\* C7: a durable row older than 24 hours that resolve reads after an in-process
\* miss is deleted before the remote lookup is issued, is never copied into the
\* in-process cache, and what resolve returns comes from the remote lookup.
C7_StaleRowDiscarded ==
    \A w \in Workers :
        ReadStaleRow(w) =>
            /\ wk[w].pc \in {"expire", "api", "store", "save", "insert", "create", "done"}
            /\ wk[w].pc # "expire" => \A r \in geoRows : r.pk # wk[w].cached.pk
            /\ wk[w].pc \notin {"expire", "api"} => InTrace(w, "remote")
            /\ wk[w].trace[1] = [tier |-> "memory", held |-> FALSE]

C7_Witness ==
    \E w \in Workers : ReadStaleRow(w) /\ wk[w].pc = "done" /\ wk[w].outcome = "returned"

\* C8: whatever the interleaving of resolves, the durable cache holds at most one
\* row per address, and no error of a cache write or delete reaches log_request.
C8_OneDurableRowPerAddress ==
    /\ \A a \in Addresses : Cardinality(RowsFor(a)) <= 1
    /\ \A w \in Workers :
          wk[w].ip # NoneIp => wk[w].pc # "fallback" /\ wk[w].outcome # "raised"

\* two concurrent resolves of one address have both read its expired row, both
\* looked up remotely and both saved
C8_Witness ==
    \E v, w \in Workers :
        /\ v # w /\ wk[v].ip = wk[w].ip
        /\ ReadStaleRow(v) /\ ReadStaleRow(w)
        /\ \A u \in {v, w} :
              /\ InTrace(u, "remote") /\ wk[u].pc \in {"create", "done"}
              /\ wk[u].country # None \/ wk[u].city # None
        /\ RowsFor(wk[w].ip) # {}

TierOrder == <<"memory", "durable", "remote">>

\* C9: resolve consults the in-process cache, then the durable cache, then the
\* remote service; a tier is consulted only after every tier before it held no
\* live value, and a tier that holds one ends the lookup.
C9_TierOrder ==
    \A w \in Workers :
        LET t == wk[w].trace
        IN  /\ Len(t) <= 3
            /\ \A i \in DOMAIN t :
                  /\ t[i].tier = TierOrder[i]
                  /\ i < Len(t) => ~t[i].held
            /\ (t # <<>> /\ t[Len(t)].held) => wk[w].pc \in {"fill", "store", "save", "insert", "create", "done"}
            /\ wk[w].pc \in {"fill", "store", "save", "insert"} => t # <<>> /\ t[Len(t)].held

C9_Witness ==
    \E v, w \in Workers :
        /\ wk[v].pc = "done" /\ Len(wk[v].trace) = 3
        /\ wk[w].pc = "fill" /\ Len(wk[w].trace) = 2

\* C10: when the remote lookup fails, resolve raises nothing and returns
\* (None, None), and the failed lookup writes to neither cache tier.
C10_FailedLookupSwallowed ==
    /\ [](\A w \in Workers :
            wk[w].apiKind = "failed" =>
                /\ wk[w].pc \in {"create", "done"}
                /\ wk[w].country = None /\ wk[w].city = None
                /\ wk[w].outcome # "raised"
                /\ wk[w].pc = "done" =>
                      \E i \in LogRowsOf(w) :
                          requestLogs[i].country = None /\ requestLogs[i].city = None)
    /\ [][\A w \in Workers :
            (wk'[w].apiKind = "failed" /\ wk'[w] # wk[w]) =>
                UNCHANGED <<memCache, geoRows>>]_vars

C10_Witness ==
    \E w \in Workers : wk[w].apiKind = "failed" /\ wk[w].pc = "done"

BlockedRowsOf(a) == {b \in blockedIPs : b.ip_address = a}

\* operator o takes a step of the operation of the given kind on the head of its list
StepOf(o, kind) ==
    op[o].kind = kind /\ op[o].pc \in {"check", "create"} /\ op'[o] # op[o]

\* C12: blocking an address that is already blocked, in a second run of block_ip
\* or as a repeated argument of one run, raises nothing and changes nothing: the
\* Block List keeps exactly one entry of the address with its original reason and
\* created_at, and the address is in the Block List after either attempt.
C12_BlockTwiceIdempotent ==
    /\ [](/\ \A a \in Addresses : Cardinality(BlockedRowsOf(a)) <= 1
          /\ \A o \in Operators : op[o].kind = "block_ip" => op[o].outcome # "raised")
    /\ [][\A o \in Operators :
            StepOf(o, "block_ip") =>
                LET ip == Head(op[o].todo)
                IN  /\ blockedIPs \subseteq blockedIPs'
                    /\ BlockedRowsOf(ip) # {} => blockedIPs' = blockedIPs
                    /\ op'[o].todo = Tail(op[o].todo) =>
                          \E b \in blockedIPs' : b.ip_address = ip]_vars

\* a second attempt, made later and with another reason, found the entry and left it
C12_Witness ==
    \E o \in Operators :
        /\ op[o].kind = "block_ip" /\ op[o].pc = "done" /\ op[o].outcome = "returned"
        /\ op[o].sawEntry /\ op[o].made = {}
        /\ \E b \in BlockedRowsOf(RemoteAddr(PublicHost)) :
              b.created_at < now /\ b.reason # op[o].reason

\* C13: block_selected_ips on a flagged address with no BlockedIP entry creates one
\* entry whose reason cites the reason read from the SuspiciousIP row; on an address
\* that has an entry it changes nothing and raises nothing, so the entry keeps its
\* reason even when the SuspiciousIP's reason has changed since.
C13_PromoteOnceThenNoOp ==
    /\ [](\A a \in Addresses : Cardinality(BlockedRowsOf(a)) <= 1)
    /\ [][\A o \in Operators :
            StepOf(o, "block_selected_ips") =>
                LET suspicious_ip == Head(op[o].todo)
                    ip == suspicious_ip.ip_address
                IN  /\ BlockedRowsOf(ip) # {} => blockedIPs' = blockedIPs
                    /\ (BlockedRowsOf(ip) # {} /\ op[o].pc = "check") =>
                          op'[o].outcome # "raised"
                    /\ (BlockedRowsOf(ip) = {} /\ op[o].pc = "create") =>
                          blockedIPs' = blockedIPs \cup
                              {[ip_address |-> ip, created_at |-> now,
                                reason |-> <<"Blocked from suspicious IP list: ">>
                                              \o suspicious_ip.reason]}]_vars

\* the address was promoted, its SuspiciousIP reason changed, and a second promotion
\* found the entry and left it with the reason it was created with
C13_Witness ==
    \E o \in Operators :
        /\ op[o].kind = "block_selected_ips" /\ op[o].pc = "done"
        /\ op[o].sawEntry /\ op[o].made = {}
        /\ \E s \in suspiciousIPs, b \in blockedIPs :
              /\ s.ip_address = b.ip_address
              /\ s.reason = HighFrequencyReason(120)
              /\ Head(b.reason) = "Blocked from suspicious IP list: "
              /\ Tail(b.reason) = HighFrequencyReason(150)
              /\ b.created_at < s.last_detected

\* C14: when block_selected_ips runs concurrently with another block writer on the
\* same address, every caller completes without an error and the Block List ends
\* with exactly one entry of the address.
C14_ConcurrentWritersSucceed ==
    /\ \A a \in Addresses : Cardinality(BlockedRowsOf(a)) <= 1
    /\ \A o \in Operators : op[o].outcome # "raised"

\* the RequestLog rows of address a stamped t or later among the first n elements
RECURSIVE RowsSince(_, _, _)
RowsSince(a, t, n) ==
    IF n = 0 THEN 0
    ELSE RowsSince(a, t, n - 1) +
         (IF requestLogs[n].ip_address = a /\ requestLogs[n].timestamp >= t
          THEN requestLogs[n].copies ELSE 0)

\* the runs whose query has been evaluated: the one in its loop, and the last finished
EvaluatedRuns ==
    (IF det.pc = "upsert"
     THEN {[one_hour_ago |-> det.one_hour_ago, startLen |-> det.startLen,
            seenLen |-> det.seenLen, flagged |-> det.flagged]}
     ELSE {})
    \cup
    (IF det.prev # NoRun
     THEN {[one_hour_ago |-> det.prev.one_hour_ago, startLen |-> det.prev.startLen,
            seenLen |-> det.prev.seenLen, flagged |-> det.prev.flagged]}
     ELSE {})

\* C15: a run flags an address exactly when the rows of the address that its query
\* saw inside the window number more than 100, the request_count it reports is that
\* number, and the entry a run created for the address records it.
C15_FlaggedIffOverThreshold ==
    /\ \A run \in EvaluatedRuns : \A a \in Addresses :
          LET n == RowsSince(a, run.one_hour_ago, run.seenLen)
          IN  /\ (n > 100) <=> (\E f \in run.flagged : f.ip_address = a)
              /\ \A f \in run.flagged : f.ip_address = a => f.request_count = n
    /\ (det.pc = "idle" /\ det.prev # NoRun) =>
          \A f \in det.prev.flagged :
              \E e \in det.prev.registry :
                  /\ e.ip_address = f.ip_address
                  /\ e.first_detected >= det.prev.started_at =>
                        e.request_count = f.request_count

\* a run that saw exactly 100 rows of the address flagged nothing, and the next,
\* seeing 101, flags it with request_count 101
C15_Witness ==
    /\ det.pc = "upsert"
    /\ det.prev # NoRun /\ det.prev.flagged = {}
    /\ RowsSince(RemoteAddr(PublicHost), det.prev.one_hour_ago, det.prev.seenLen) = 100
    /\ RowsSince(RemoteAddr(PublicHost), det.one_hour_ago, det.seenLen) = 101
    /\ det.flagged = {[ip_address |-> RemoteAddr(PublicHost), request_count |-> 101]}

\* C16: a run with window end W counts exactly the rows stamped in [W - 1 hour, W):
\* the rows stamped W - 1 hour or later that were in RequestLog when the run read
\* the clock, and none of those ingested while the run was in progress.
C16_CountsHalfOpenWindow ==
    \A run \in EvaluatedRuns : \A a \in Addresses :
        LET n == RowsSince(a, run.one_hour_ago, run.startLen)
        IN  /\ (n > 100) <=> (\E f \in run.flagged : f.ip_address = a)
            /\ \A f \in run.flagged : f.ip_address = a => f.request_count = n

\* the entries of address a in a registry
EntriesOf(registry, a) == {s \in registry : s.ip_address = a}

\* C17: the upsert of a flagged address creates an active entry when the address has
\* none, and otherwise changes only reason, request_count and last_detected of the
\* one entry: no second entry appears, and first_detected, is_active and the
\* location stay as they were, so a deactivated entry stays inactive.
C17_UpsertNeitherDuplicatesNorReactivates ==
    /\ [](\A a \in Addresses : Cardinality(EntriesOf(suspiciousIPs, a)) <= 1)
    /\ [][(det.pc = "upsert" /\ det' # det) =>
            LET a == Head(det.todo).ip_address
                n == Head(det.todo).request_count
                old == EntriesOf(suspiciousIPs, a)
                new == EntriesOf(suspiciousIPs', a)
            IN  /\ Cardinality(new) = 1
                /\ suspiciousIPs' \ new = suspiciousIPs \ old
                /\ \A e \in new :
                      /\ e.request_count = n
                      /\ e.reason = <<"High request frequency: ">> \o Dec(n)
                                       \o <<" requests in the last hour">>
                      /\ e.last_detected = now
                      /\ old = {} => e.is_active /\ e.first_detected = now
                      /\ \A o \in old :
                            /\ e.first_detected = o.first_detected
                            /\ e.is_active = o.is_active
                            /\ e.country = o.country /\ e.city = o.city]_vars

\* an entry an operator deactivated was detected again at a later time, and is
\* still the one entry of the address, and inactive
C17_Witness ==
    /\ det.pc = "idle" /\ det.prev # NoRun
    /\ \E f \in det.prev.flagged : \E e \in det.prev.registry :
          /\ e.ip_address = f.ip_address
          /\ ~e.is_active
          /\ e.first_detected < det.prev.started_at
          /\ e.last_detected > e.first_detected
          /\ e.request_count = f.request_count
          /\ det.prev.registry = {e}

\* C18: in every step, of the detector or of an operator, an entry that exists keeps
\* its first_detected and its last_detected does not go back, and a step that
\* detects the address again sets last_detected to the time of that detection.
C18_FirstDetectedFixedLastDetectedAdvances ==
    [][\A a \in Addresses :
          \A o \in EntriesOf(suspiciousIPs, a) :
              \A e \in EntriesOf(suspiciousIPs', a) :
                    /\ e.first_detected = o.first_detected
                    /\ e.last_detected >= o.last_detected
                    /\ e.last_detected >= e.first_detected
                    /\ (det.pc = "upsert" /\ det' # det /\ Head(det.todo).ip_address = a)
                          => e.last_detected = now']_vars

\* an entry was detected again an hour after its creation and an operator edited it
\* an hour later still: first_detected is the time of creation, last_detected moved
\* forward at the detection and again at the edit
C18_Witness ==
    /\ det.pc = "idle" /\ det.prev # NoRun
    /\ \E f \in det.prev.flagged : \E r \in det.prev.registry : \E e \in suspiciousIPs :
          /\ r.ip_address = f.ip_address /\ e.ip_address = f.ip_address
          /\ r.first_detected < det.prev.started_at
          /\ r.last_detected > r.first_detected
          /\ e.first_detected = r.first_detected
          /\ e.last_detected > r.last_detected
          /\ e.reason # r.reason

\* a registry without what an operator's deactivation changes
ApartFromActive(registry) == {[e EXCEPT !.is_active = TRUE] : e \in registry}

\* a run returns that had the window and the rows of the run before it
ReturnsFromSameWindow ==
    /\ det.pc # "idle" /\ det'.pc = "idle"
    /\ det.prev # NoRun
    /\ det'.prev.one_hour_ago = det.prev.one_hour_ago
    /\ det'.prev.seenLen = det.prev.seenLen

\* C19: a second run over the same window, no RequestLog row added or removed since
\* the first, leaves the registry as the first run left it: the same addresses, each
\* with the same reason, request_count, first_detected and last_detected.
C19_SecondRunSameEndState ==
    [][ReturnsFromSameWindow =>
          ApartFromActive(suspiciousIPs') = ApartFromActive(det.prev.registry)]_vars

\* C20: request_count is replaced by every run: when a run has returned, the entry
\* of an address with requests in that run's window records their number and a
\* reason citing it, 150 after a run that saw 150 and 60 after a later run in whose
\* window the address has 60.
C20_CountReplacedByEveryRun ==
    (det.pc = "idle" /\ det.prev # NoRun) =>
        \A e \in det.prev.registry :
            LET n == RowsSince(e.ip_address, det.prev.one_hour_ago, det.prev.seenLen)
            IN  n > 0 =>
                  /\ e.request_count = n
                  /\ e.reason = <<"High request frequency: ">> \o Dec(n)
                                   \o <<" requests in the last hour">>

\* the paths is_sensitive_path is examined on
SamplePaths == {"/", "/about", "/admin/login", "/x/../admin/", "/Admin", "/adm/in"}

\* an entry of the sensitive list stands somewhere in the path
ListEntryInside(path) ==
    \E e \in get_sensitive_paths : \E i \in 1..Len(PathChars(path)) :
        /\ i + Len(e) - 1 <= Len(PathChars(path))
        /\ \A k \in 1..Len(e) : PathChars(path)[i + k - 1] = e[k]

\* the sample paths that is_sensitive_path accepts, and those with a list entry inside
SensitiveSamples == {path \in SamplePaths : is_sensitive_path(path)}
ListedSamples == {path \in SamplePaths : ListEntryInside(path)}

\* the requests of address a to sensitive paths, stamped t or later
RECURSIVE SensitiveRowsSince(_, _, _)
SensitiveRowsSince(a, t, n) ==
    IF n = 0 THEN 0
    ELSE SensitiveRowsSince(a, t, n - 1) +
         (IF /\ requestLogs[n].ip_address = a
             /\ requestLogs[n].timestamp >= t
             /\ requestLogs[n].path \in ListedSamples
          THEN requestLogs[n].copies ELSE 0)

C22_FaultLeavesOtherHeuristicsRunning ==
    (det.pc = "idle" /\ det.prev # NoRun /\ "high_frequency" \notin det.prev.completed) =>
        /\ "sensitive_path" \in det.prev.completed
        /\ det.prev.status # "error"

\* C23: mark_as_inactive leaves every selected entry with is_active false and all
\* its other fields as they were, leaves the entries not selected alone and deletes
\* none; applied to entries that are inactive already it changes nothing.
C23_DeactivateIdempotentAndFramed ==
    [][\A o \in Operators :
          (op[o].pc = "idle" /\ op'[o].kind = "mark_as_inactive") =>
              LET selected == op'[o].made
              IN  /\ Cardinality(suspiciousIPs') = Cardinality(suspiciousIPs)
                  /\ \A s \in suspiciousIPs :
                        IF s.ip_address \in selected
                        THEN [s EXCEPT !.is_active = FALSE] \in suspiciousIPs'
                        ELSE s \in suspiciousIPs'
                  /\ (\A s \in suspiciousIPs : s.ip_address \in selected => ~s.is_active)
                        => suspiciousIPs' = suspiciousIPs]_vars

\* the action was applied again, later, to an entry it had deactivated: the entry is
\* inactive, its last_detected is the earlier time at which its reason was edited,
\* and the entry that was not selected is active
C23_Witness ==
    \E o \in Operators :
        /\ op[o].kind = "mark_as_inactive" /\ op[o].pc = "done" /\ op[o].sawEntry
        /\ \E s \in suspiciousIPs :
              /\ s.ip_address \in op[o].made /\ ~s.is_active
              /\ s.reason = HighFrequencyReason(120)
              /\ s.first_detected < s.last_detected /\ s.last_detected < now
        /\ \E s \in suspiciousIPs : s.ip_address \notin op[o].made /\ s.is_active

\* the remote lookup behind the value that worker w's resolve takes from a cache tier
\* in this step, by an in-process hit or by a durable hit; NoLookup in any other step
ServedLookup(w) ==
    IF wk[w].pc = "cache" /\ wk'[w].pc = "create" THEN memCache[wk[w].ip].origin
    ELSE IF wk[w].pc = "fill" /\ wk'[w].pc = "create" THEN wk[w].cached.origin
    ELSE NoLookup

\* C24: whichever tier serves the result of a remote lookup, resolve returns the
\* (country, city) pair that the call which made the lookup returned, also when the
\* remote result had exactly one absent field.
C24_SamePairFromEveryTier ==
    [][\A w \in Workers :
          ServedLookup(w) # NoLookup =>
              /\ wk'[w].country = ServedLookup(w).country
              /\ wk'[w].city = ServedLookup(w).city]_vars

\* C25: a value resolve serves from either tier was fetched remotely no more than
\* 24 hours before it is served.
C25_ServedValueWithinTtl ==
    [][\A w \in Workers :
          ServedLookup(w) # NoLookup => now - ServedLookup(w).at <= CacheTimeout]_vars

====
